---- MODULE Spec2Model ----
(***************************************************************************)
(* Model of the metascraper token readers: MetaReader (meta.go),           *)
(* SchemaReader (schema.go) and PageReader (page.go).                      *)
(*                                                                         *)
(* Go strings are modelled as sequences of one-character strings, so that  *)
(* concatenation and strings.HasPrefix are computed, not assumed.          *)
(* Pointers to Meta, ItemScope and ItemProp are indices into a heap        *)
(* sequence of the pointed-to structs; index 0 is a freshly allocated      *)
(* struct that nothing else references.                                    *)
(***************************************************************************)
EXTENDS Integers, Sequences, FiniteSets, TLC

VARIABLES
    \* MetaReader
    metas,          \* heap of Meta structs, a *Meta is an index
    metaItems,      \* MetaReader.items
    metaInside,     \* MetaReader.inside
    metaInHead,     \* MetaReader.inHead
    metaFatal,      \* message of the log.Fatalln that ended the process, or ""
    \* history variables of MetaReader
    metaOpen,       \* the Meta made by the meta element that is still open, or 0
    metaAttrContent, \* per Meta, the content attribute it was created with
    \* SchemaReader
    scopes,         \* heap of ItemScope structs, a *ItemScope is an index
    props,          \* heap of ItemProp structs, a *ItemProp is an index
    items,          \* SchemaReader.items
    stack,          \* SchemaReader.stack
    breadcrumbs,    \* SchemaReader.breadcrumbs
    insideProp,     \* SchemaReader.insideProp
    inHead,         \* SchemaReader.inHead
    schemaFatal,    \* message of the log.Fatalln or panic that ended the process, or ""
    \* history variables of SchemaReader
    open,           \* the elements opened and not yet closed, while wellNested
    wellNested,     \* every end tag so far closed the innermost open element
    scopeParent,    \* per ItemScope, the top of the scope stack when it was made, or 0
    propAttrContent,\* per ItemProp, the content attribute it was created with
    propFresh,      \* the ItemProp made by the last start tag, no tag event since; or 0
    propText,       \* the last text delivered since propFresh was made, "" if none
    \* PageReader and the Page it writes to
    inTitle,        \* PageReader.inTitle
    inBody,         \* PageReader.inBody
    inScript,       \* PageReader.inScript
    text,           \* PageReader.text
    pageTitle,      \* Page.Title
    pageText,       \* Page.Text
    \* history variable of PageReader
    hist,           \* the handler calls made so far, in order
    \* Page.Read
    pc,             \* "loop": at z.Next(); "dispatch": inside a ReaderList method;
                    \* "returned": Read has returned
    call,           \* the ReaderList method being run and the reader it is at
    nTokens,        \* the tokens read so far
    err,            \* the error Read returned, "" before it returns
    zErr,           \* z.Err(): the error the tokenizer stopped with, "" before
    scrapeErr,      \* the error Scrape returned, "" for nil
    \* history variables of Page.Read
    atError,        \* the results as they were when the error token was read
    logOn,          \* whether tokens and log are recorded in this run
    tokens,         \* the tokens read so far, in order
    log,            \* the handler calls made so far, in order
    \* text normalization applied on its own
    normIn,         \* the string given to the normalization
    normOut,        \* the results of applying it once, twice, ...
    \* history variables of the run
    done,           \* the token stream has ended and Done has run
    lastCall        \* the MetaReader handler called last: "", "start", "end", "text"

metaVars == <<metas, metaItems, metaInside, metaInHead, metaFatal>>
metaGhost == <<metaOpen, metaAttrContent>>

schemaVars == <<scopes, props, items, stack, breadcrumbs, insideProp, inHead,
                schemaFatal>>
schemaGhost == <<open, wellNested, scopeParent, propAttrContent, propFresh,
                 propText>>

pageVars == <<inTitle, inBody, inScript, text, pageTitle, pageText>>

readVars == <<pc, call, nTokens, err, zErr, scrapeErr, atError, logOn, tokens,
              log>>

normVars == <<normIn, normOut>>

vars == <<metaVars, metaGhost, schemaVars, schemaGhost, pageVars, hist,
          readVars, normVars, done, lastCall>>

----------------------------------------------------------------------------
(* Bounds *)
MaxMetas == 3
MaxScopes == 2
MaxProps == 2
MaxDepth == 3
MaxHist == 5
MaxTokens == 5
MaxLen == 5
MaxLogTokens == 4

----------------------------------------------------------------------------
(* Strings and attribute maps *)

EmptyStr == <<>>

\* attrs[k] of a Go map[string]string: the zero value "" for a missing key
Get(attrs, k) == IF k \in DOMAIN attrs THEN attrs[k] ELSE EmptyStr

\* strings.HasPrefix
HasPrefix(s, prefix) ==
    /\ Len(prefix) <= Len(s)
    /\ SubSeq(s, 1, Len(prefix)) = prefix

\* the map built from a set of <<key, value>> pairs with distinct keys
AttrsOf(pairs) ==
    [k \in {p[1] : p \in pairs} |-> (CHOOSE p \in pairs : p[1] = k)[2]]

Tags == {"head", "meta", "div"}
SchemaTags == {"head", "div"}
PageTags == {"title", "body", "script"}
PageTexts == {<<"x">>, <<" ", "\n">>}
Texts == {<<"t">>}

PropertyValues ==
    {<<"a">>, <<"a", ":", "b">>, <<"a", ":", "b", ":", "c">>, <<":", "a">>}
ContentValues == {<<"c">>}

MetaAttrs ==
    {AttrsOf({})}
    \cup {AttrsOf({<<"property", p>>}) : p \in PropertyValues}
    \cup {AttrsOf({<<"property", p>>, <<"content", c>>}) :
              p \in PropertyValues, c \in ContentValues}
    \cup {AttrsOf({<<"name", <<"n">> >>, <<"content", c>>}) : c \in ContentValues}

SchemaAttrs ==
    { AttrsOf({}),
      AttrsOf({<<"class", <<"k">> >>}),
      AttrsOf({<<"itemscope", EmptyStr>>, <<"itemtype", <<"T">> >>}),
      AttrsOf({<<"itemscope", EmptyStr>>, <<"itemprop", <<"p">> >>}),
      AttrsOf({<<"itemprop", <<"p">> >>}),
      AttrsOf({<<"itemprop", <<"q">> >>, <<"content", <<"c">> >>}) }

----------------------------------------------------------------------------
(* MetaReader, meta.go *)

NewMeta == [Property |-> EmptyStr, Content |-> EmptyStr, Name |-> EmptyStr,
            Extra |-> <<>>]

\* the MetaReader struct together with the Meta structs it can reach
MetaReaderState ==
    [heap |-> metas, items |-> metaItems, inside |-> metaInside,
     inHead |-> metaInHead, fatal |-> metaFatal]

MetaReader_current(r) ==
    IF Len(r.items) = 0
    THEN [m |-> 0, exists |-> FALSE]
    ELSE [m |-> r.items[Len(r.items)], exists |-> TRUE]

MetaReader_next(r) ==
    LET m == Len(r.heap) + 1
    IN  [r |-> [r EXCEPT !.heap = Append(@, NewMeta),
                         !.items = Append(@, m)],
         m |-> m]

MetaReader_pop(r) ==
    IF Len(r.items) = 0
    THEN [r |-> [r EXCEPT !.fatal = "panic: index out of range"], c |-> 0]
    ELSE [r |-> [r EXCEPT !.items = SubSeq(@, 1, Len(@) - 1)],
          c |-> r.items[Len(r.items)]]

\* the previous Meta is embedded in the new one instead
MetaReader_makeCurrentExtra_Swapped(r) ==
    LET p == MetaReader_pop(r)
        cur == MetaReader_current(p.r)
        q == MetaReader_pop(p.r)
    IN  IF ~cur.exists
        THEN [p.r EXCEPT !.fatal = "No prior meta tag to associate the current tag with."]
        ELSE [q.r EXCEPT !.heap[p.c].Extra = Append(@, cur.m),
                         !.items = Append(@, p.c)]

\* the folded Meta is put in front of the extras already there
MetaReader_makeCurrentExtra_Prepend(r) ==
    LET p == MetaReader_pop(r)
        cur == MetaReader_current(p.r)
    IN  IF p.r.fatal # "" THEN p.r
        ELSE IF ~cur.exists
        THEN [p.r EXCEPT !.fatal = "No prior meta tag to associate the current tag with."]
        ELSE [p.r EXCEPT !.heap[cur.m].Extra = <<p.c>> \o @]

MetaReader_makeCurrentExtra(r) ==
    LET p == MetaReader_pop(r)
        cur == MetaReader_current(p.r)
    IN  IF p.r.fatal # "" THEN p.r
        ELSE IF ~cur.exists
        THEN [p.r EXCEPT !.fatal = "No prior meta tag to associate the current tag with."]
        ELSE [p.r EXCEPT !.heap[cur.m].Extra = Append(@, p.c)]

\* the prefix test without the ":" separator
MetaReader_HandleStart_NoColon(r, tn, attrs) ==
    IF tn = "head" THEN [r EXCEPT !.inHead = TRUE]
    ELSE IF tn = "meta" THEN
        IF ~r.inHead THEN r
        ELSE
            LET r1 == [r EXCEPT !.inside = TRUE]
                cur == MetaReader_current(r1)
                n == MetaReader_next(r1)
                r2 == [n.r EXCEPT !.heap[n.m].Property = Get(attrs, "property"),
                                  !.heap[n.m].Content = Get(attrs, "content"),
                                  !.heap[n.m].Name = Get(attrs, "name")]
            IN  IF cur.exists
                   /\ HasPrefix(r2.heap[n.m].Property, r2.heap[cur.m].Property)
                THEN MetaReader_makeCurrentExtra(r2)
                ELSE r2
    ELSE r

\* the fold is attempted whether or not a Meta existed before
MetaReader_HandleStart_NoExists(r, tn, attrs) ==
    IF tn = "head" THEN [r EXCEPT !.inHead = TRUE]
    ELSE IF tn = "meta" THEN
        IF ~r.inHead THEN r
        ELSE
            LET r1 == [r EXCEPT !.inside = TRUE]
                cur == MetaReader_current(r1)
                curProperty == IF cur.exists THEN r1.heap[cur.m].Property
                               ELSE EmptyStr
                n == MetaReader_next(r1)
                r2 == [n.r EXCEPT !.heap[n.m].Property = Get(attrs, "property"),
                                  !.heap[n.m].Content = Get(attrs, "content"),
                                  !.heap[n.m].Name = Get(attrs, "name")]
            IN  IF HasPrefix(r2.heap[n.m].Property, curProperty \o <<":">>)
                THEN MetaReader_makeCurrentExtra(r2)
                ELSE r2
    ELSE r

MetaReader_HandleStart(r, tn, attrs) ==
    IF tn = "head" THEN [r EXCEPT !.inHead = TRUE]
    ELSE IF tn = "meta" THEN
        IF ~r.inHead THEN r
        ELSE
            LET r1 == [r EXCEPT !.inside = TRUE]
                cur == MetaReader_current(r1)
                n == MetaReader_next(r1)
                r2 == [n.r EXCEPT !.heap[n.m].Property = Get(attrs, "property"),
                                  !.heap[n.m].Content = Get(attrs, "content"),
                                  !.heap[n.m].Name = Get(attrs, "name")]
            IN  IF cur.exists
                   /\ HasPrefix(r2.heap[n.m].Property,
                                r2.heap[cur.m].Property \o <<":">>)
                THEN MetaReader_makeCurrentExtra(r2)
                ELSE r2
    ELSE r

MetaReader_HandleEnd(r, tn) ==
    IF tn = "head" THEN [r EXCEPT !.inHead = FALSE]
    ELSE IF tn = "meta" THEN [r EXCEPT !.inside = FALSE]
    ELSE r

\* the text is appended whether or not the Meta has content
MetaReader_HandleText_NoGuard(r, txt) ==
    IF r.inside /\ r.inHead
    THEN LET cur == MetaReader_current(r)
         IN  IF cur.exists
             THEN [r EXCEPT !.heap[cur.m].Content = @ \o txt]
             ELSE r
    ELSE r

MetaReader_HandleText(r, txt) ==
    IF r.inside /\ r.inHead
    THEN LET cur == MetaReader_current(r)
         IN  IF cur.exists /\ r.heap[cur.m].Content = EmptyStr
             THEN [r EXCEPT !.heap[cur.m].Content = @ \o txt]
             ELSE r
    ELSE r

\* MetaReader.Done: no cleanup
MetaReader_Done(r) == r

SetMetaReader(r) ==
    /\ metas' = r.heap
    /\ metaItems' = r.items
    /\ metaInside' = r.inside
    /\ metaInHead' = r.inHead
    /\ metaFatal' = r.fatal

----------------------------------------------------------------------------
(* MetaReader driven by an arbitrary sequence of handler calls *)

MetaCreates(tn) == tn = "meta" /\ metaInHead

MetaStart(tn, attrs) ==
    /\ metaFatal = ""
    /\ SetMetaReader(MetaReader_HandleStart(MetaReaderState, tn, attrs))
    /\ metaOpen' = IF MetaCreates(tn) THEN Len(metas) + 1 ELSE metaOpen
    /\ metaAttrContent' = IF MetaCreates(tn)
                          THEN Append(metaAttrContent, Get(attrs, "content"))
                          ELSE metaAttrContent
    /\ lastCall' = "start"

MetaEnd(tn) ==
    /\ metaFatal = ""
    /\ SetMetaReader(MetaReader_HandleEnd(MetaReaderState, tn))
    /\ metaOpen' = IF tn = "meta" THEN 0 ELSE metaOpen
    /\ UNCHANGED metaAttrContent
    /\ lastCall' = "end"

MetaText(txt) ==
    /\ metaFatal = ""
    /\ SetMetaReader(MetaReader_HandleText(MetaReaderState, txt))
    /\ UNCHANGED metaGhost
    /\ lastCall' = "text"

MetaWithinBounds(tn) == MetaCreates(tn) => Len(metas) < MaxMetas

MetaHandleStart ==
    /\ \E tn \in Tags, attrs \in MetaAttrs :
          MetaWithinBounds(tn) /\ MetaStart(tn, attrs)
    /\ UNCHANGED <<schemaVars, schemaGhost, pageVars, hist, readVars, normVars, done>>
MetaHandleEnd ==
    /\ \E tn \in Tags : MetaEnd(tn)
    /\ UNCHANGED <<schemaVars, schemaGhost, pageVars, hist, readVars, normVars, done>>
MetaHandleText ==
    /\ \E txt \in Texts : MetaText(txt)
    /\ UNCHANGED <<schemaVars, schemaGhost, pageVars, hist, readVars, normVars, done>>

MetaNext == MetaHandleStart \/ MetaHandleEnd \/ MetaHandleText

----------------------------------------------------------------------------
(* SchemaReader, schema.go *)

NoProp == "No prop to set content from text node"
OutOfRange == "panic: slice bounds out of range"

NewItemScope == [TagName |-> "", ItemType |-> EmptyStr, ItemProp |-> EmptyStr,
                 Props |-> <<>>, Children |-> <<>>]

\* the SchemaReader struct together with the structs it can reach
SchemaReaderState ==
    [scopes |-> scopes, props |-> props, items |-> items, stack |-> stack,
     breadcrumbs |-> breadcrumbs, insideProp |-> insideProp, inHead |-> inHead,
     fatal |-> schemaFatal]

SchemaReader_current(r) ==
    IF Len(r.stack) > 0
    THEN [s |-> r.stack[Len(r.stack)], exists |-> TRUE]
    ELSE [s |-> 0, exists |-> FALSE]

\* the new scope is appended to the root sequence as well as to the children
SchemaReader_next_Both(r) ==
    LET s == Len(r.scopes) + 1
        r1 == [r EXCEPT !.scopes = Append(@, NewItemScope)]
        r2 == IF Len(r1.stack) > 0
              THEN LET cur == r1.stack[Len(r1.stack)]
                   IN  [r1 EXCEPT !.scopes[cur].Children = Append(@, s),
                                  !.items = Append(@, s)]
              ELSE [r1 EXCEPT !.items = Append(@, s)]
    IN  [r |-> [r2 EXCEPT !.stack = Append(@, s)], s |-> s]

SchemaReader_next(r) ==
    LET s == Len(r.scopes) + 1
        r1 == [r EXCEPT !.scopes = Append(@, NewItemScope)]
        r2 == IF Len(r1.stack) > 0
              THEN LET cur == r1.stack[Len(r1.stack)]
                   IN  [r1 EXCEPT !.scopes[cur].Children = Append(@, s)]
              ELSE [r1 EXCEPT !.items = Append(@, s)]
    IN  [r |-> [r2 EXCEPT !.stack = Append(@, s)], s |-> s]

\* the slice drops one scope too many
SchemaReader_pop_Two(r) ==
    IF Len(r.stack) < 2
    THEN [r EXCEPT !.fatal = OutOfRange]
    ELSE [r EXCEPT !.stack = SubSeq(@, 1, Len(@) - 2)]

SchemaReader_pop(r) ==
    IF Len(r.stack) = 0
    THEN [r EXCEPT !.fatal = OutOfRange]
    ELSE [r EXCEPT !.stack = SubSeq(@, 1, Len(@) - 1)]

SchemaReader_HandleStart(r, tn, attrs) ==
    LET r1 == IF tn = "head" THEN [r EXCEPT !.inHead = TRUE] ELSE r
    IN  IF r1.inHead \/ Cardinality(DOMAIN attrs) = 0 THEN r1
        ELSE
            LET cur == SchemaReader_current(r1)
            IN  IF "itemscope" \in DOMAIN attrs
                THEN LET n == SchemaReader_next(r1)
                     IN  [n.r EXCEPT
                             !.scopes[n.s].ItemProp = Get(attrs, "itemprop"),
                             !.scopes[n.s].TagName = tn,
                             !.scopes[n.s].ItemType = Get(attrs, "itemtype"),
                             !.breadcrumbs = Append(@, TRUE)]
                ELSE IF cur.exists /\ "itemprop" \in DOMAIN attrs
                THEN LET p == Len(r1.props) + 1
                     IN  [r1 EXCEPT
                             !.props = Append(@,
                                 [TagName |-> tn,
                                  ItemProp |-> attrs["itemprop"],
                                  HREF |-> Get(attrs, "href"),
                                  Content |-> Get(attrs, "content"),
                                  DateTime |-> Get(attrs, "datetime")]),
                             !.scopes[cur.s].Props = Append(@, p),
                             !.insideProp = TRUE,
                             !.breadcrumbs = Append(@, FALSE)]
                ELSE [r1 EXCEPT !.breadcrumbs = Append(@, FALSE)]

\* the marker is popped but the scope it stands for is left on the stack
SchemaReader_HandleEnd_NoPop(r, tn) ==
    IF r.inHead
    THEN IF tn = "head" THEN [r EXCEPT !.inHead = FALSE] ELSE r
    ELSE
        LET r1 == [r EXCEPT !.insideProp = FALSE]
            depth == Len(r1.breadcrumbs)
        IN  IF depth > 0
            THEN [r1 EXCEPT !.breadcrumbs = SubSeq(@, 1, depth - 1)]
            ELSE r1

SchemaReader_HandleEnd(r, tn) ==
    IF r.inHead
    THEN IF tn = "head" THEN [r EXCEPT !.inHead = FALSE] ELSE r
    ELSE
        LET r1 == [r EXCEPT !.insideProp = FALSE]
            depth == Len(r1.breadcrumbs)
        IN  IF depth > 0
            THEN LET shouldPop == r1.breadcrumbs[depth]
                     r2 == [r1 EXCEPT !.breadcrumbs = SubSeq(@, 1, depth - 1)]
                 IN  IF shouldPop THEN SchemaReader_pop(r2) ELSE r2
            ELSE r1

\* the content is set only when the attribute left it empty
SchemaReader_HandleText_KeepAttr(r, txt) ==
    IF r.insideProp
    THEN LET cur == SchemaReader_current(r)
         IN  IF ~cur.exists \/ Len(r.scopes[cur.s].Props) = 0
             THEN [r EXCEPT !.fatal = NoProp]
             ELSE LET ps == r.scopes[cur.s].Props
                      p == ps[Len(ps)]
                  IN  IF r.props[p].Content = EmptyStr
                      THEN [r EXCEPT !.props[p].Content = txt]
                      ELSE r
    ELSE r

SchemaReader_HandleText(r, txt) ==
    IF r.insideProp
    THEN LET cur == SchemaReader_current(r)
         IN  IF ~cur.exists \/ Len(r.scopes[cur.s].Props) = 0
             THEN [r EXCEPT !.fatal = NoProp]
             ELSE LET ps == r.scopes[cur.s].Props
                  IN  [r EXCEPT !.props[ps[Len(ps)]].Content = txt]
    ELSE r

\* SchemaReader.Done: no cleanup
SchemaReader_Done(r) == r

SetSchemaReader(r) ==
    /\ scopes' = r.scopes
    /\ props' = r.props
    /\ items' = r.items
    /\ stack' = r.stack
    /\ breadcrumbs' = r.breadcrumbs
    /\ insideProp' = r.insideProp
    /\ inHead' = r.inHead
    /\ schemaFatal' = r.fatal

----------------------------------------------------------------------------
(* SchemaReader driven by an arbitrary sequence of handler calls *)

SchemaVisible(tn, attrs) == tn # "head" /\ ~inHead /\ DOMAIN attrs # {}
SchemaCreatesScope(tn, attrs) ==
    SchemaVisible(tn, attrs) /\ "itemscope" \in DOMAIN attrs
SchemaCreatesProp(tn, attrs) ==
    /\ SchemaVisible(tn, attrs)
    /\ "itemscope" \notin DOMAIN attrs
    /\ "itemprop" \in DOMAIN attrs
    /\ stack # <<>>

\* history: the open elements, followed while the stream is well nested
\* (outside: opened outside the head; scope: the ItemScope it created, or 0)
OpenAfterStart(tn, attrs, p) ==
    IF wellNested
    THEN Append(open, [tn |-> tn, prop |-> p,
                       outside |-> (tn # "head" /\ ~inHead),
                       scope |-> IF SchemaCreatesScope(tn, attrs)
                                 THEN Len(scopes) + 1 ELSE 0])
    ELSE open
Closes(tn) == open # <<>> /\ open[Len(open)].tn = tn
OpenAfterEnd(tn) ==
    IF wellNested /\ Closes(tn) THEN SubSeq(open, 1, Len(open) - 1) ELSE <<>>

SchemaStartHistory(tn, attrs) ==
    /\ LET p == IF SchemaCreatesProp(tn, attrs) THEN Len(props) + 1 ELSE 0
       IN  /\ open' = OpenAfterStart(tn, attrs, p)
           /\ propFresh' = p
    /\ propText' = EmptyStr
    /\ UNCHANGED wellNested
    /\ scopeParent' = IF SchemaCreatesScope(tn, attrs)
                      THEN Append(scopeParent,
                                  IF stack = <<>> THEN 0 ELSE stack[Len(stack)])
                      ELSE scopeParent
    /\ propAttrContent' = IF SchemaCreatesProp(tn, attrs)
                          THEN Append(propAttrContent, Get(attrs, "content"))
                          ELSE propAttrContent

SchemaEndHistory(tn) ==
    /\ open' = OpenAfterEnd(tn)
    /\ wellNested' = (wellNested /\ Closes(tn))
    /\ propFresh' = 0
    /\ propText' = EmptyStr
    /\ UNCHANGED <<scopeParent, propAttrContent>>

SchemaTextHistory(txt) ==
    /\ propText' = IF propFresh # 0 THEN txt ELSE propText
    /\ UNCHANGED <<open, wellNested, scopeParent, propAttrContent, propFresh>>

SchemaStart(tn, attrs) ==
    /\ schemaFatal = "" /\ ~done
    /\ SetSchemaReader(SchemaReader_HandleStart(SchemaReaderState, tn, attrs))
    /\ SchemaStartHistory(tn, attrs)
    /\ UNCHANGED <<done, lastCall>>

SchemaEnd(tn) ==
    /\ schemaFatal = "" /\ ~done
    /\ SetSchemaReader(SchemaReader_HandleEnd(SchemaReaderState, tn))
    /\ SchemaEndHistory(tn)
    /\ UNCHANGED <<done, lastCall>>

SchemaText(txt) ==
    /\ schemaFatal = "" /\ ~done
    /\ SetSchemaReader(SchemaReader_HandleText(SchemaReaderState, txt))
    /\ SchemaTextHistory(txt)
    /\ UNCHANGED <<done, lastCall>>

SchemaWithinBounds(tn, attrs) ==
    /\ SchemaVisible(tn, attrs) => Len(breadcrumbs) < MaxDepth
    /\ wellNested => Len(open) < MaxDepth
    /\ SchemaCreatesScope(tn, attrs) => Len(scopes) < MaxScopes
    /\ SchemaCreatesProp(tn, attrs) => Len(props) < MaxProps

SchemaHandleStart ==
    /\ \E tn \in SchemaTags, attrs \in SchemaAttrs :
          SchemaWithinBounds(tn, attrs) /\ SchemaStart(tn, attrs)
    /\ UNCHANGED <<metaVars, metaGhost, pageVars, hist, readVars, normVars>>
SchemaHandleEnd ==
    /\ \E tn \in SchemaTags : SchemaEnd(tn)
    /\ UNCHANGED <<metaVars, metaGhost, pageVars, hist, readVars, normVars>>
SchemaHandleText ==
    /\ \E txt \in Texts : SchemaText(txt)
    /\ UNCHANGED <<metaVars, metaGhost, pageVars, hist, readVars, normVars>>
\* end of the token stream: readers.Done(), then Read returns
SchemaDone ==
    /\ schemaFatal = "" /\ ~done
    /\ SetSchemaReader(SchemaReader_Done(SchemaReaderState))
    /\ done' = TRUE
    /\ UNCHANGED <<schemaGhost, metaVars, metaGhost, pageVars, hist, readVars, normVars, lastCall>>

SchemaNext == SchemaHandleStart \/ SchemaHandleEnd \/ SchemaHandleText \/ SchemaDone

----------------------------------------------------------------------------
(* PageReader, page.go *)

LineFeedChars == {"\n", "\r"}          \* [\n\r]
WhitespaceChars == {"\t", "\n", "\f", "\r", " "}   \* \s
\* the characters strings.TrimSpace removes, among those of the model
\* "VT" stands for the vertical tab U+000B, which TrimSpace removes and \s
\* does not match
TrimChars == {"\t", "\n", "VT", "\f", "\r", " "}

RECURSIVE DropLeading(_, _)
DropLeading(s, class) ==
    IF s # <<>> /\ Head(s) \in class THEN DropLeading(Tail(s), class) ELSE s

RECURSIVE DropTrailing(_, _)
DropTrailing(s, class) ==
    IF s # <<>> /\ s[Len(s)] \in class
    THEN DropTrailing(SubSeq(s, 1, Len(s) - 1), class)
    ELSE s

\* only pairs of class characters are replaced, as by the pattern class{2}
RECURSIVE ReplaceRuns_Pairs(_, _, _)
ReplaceRuns_Pairs(s, class, rep) ==
    IF s = <<>> THEN <<>>
    ELSE IF Len(s) >= 2 /\ s[1] \in class /\ s[2] \in class
    THEN <<rep>> \o ReplaceRuns_Pairs(Tail(Tail(s)), class, rep)
    ELSE <<Head(s)>> \o ReplaceRuns_Pairs(Tail(s), class, rep)

\* regexp.ReplaceAll of class+ by the one character rep
RECURSIVE ReplaceRuns(_, _, _)
ReplaceRuns(s, class, rep) ==
    IF s = <<>> THEN <<>>
    ELSE IF Head(s) \in class
    THEN <<rep>> \o ReplaceRuns(DropLeading(s, class), class, rep)
    ELSE <<Head(s)>> \o ReplaceRuns(Tail(s), class, rep)

TrimSpace(s) == DropTrailing(DropLeading(s, TrimChars), TrimChars)

\* the PageReader struct together with the Page fields it writes
PageReaderState ==
    [inTitle |-> inTitle, inBody |-> inBody, inScript |-> inScript,
     text |-> text, Title |-> pageTitle, Text |-> pageText]

PageReader_HandleStart(r, tn, attrs) ==
    IF tn = "title" THEN [r EXCEPT !.inTitle = TRUE]
    ELSE IF tn = "body" THEN [r EXCEPT !.inBody = TRUE]
    ELSE IF tn = "script" THEN [r EXCEPT !.inScript = TRUE]
    ELSE r

PageReader_HandleEnd(r, tn) ==
    IF tn = "title" THEN [r EXCEPT !.inTitle = FALSE]
    ELSE IF tn = "body" THEN [r EXCEPT !.inBody = FALSE]
    ELSE IF tn = "script" THEN [r EXCEPT !.inScript = FALSE]
    ELSE r

\* script text is not left out
PageReader_HandleText_WithScript(r, t) ==
    IF r.inTitle THEN [r EXCEPT !.Title = t]
    ELSE IF r.inBody THEN [r EXCEPT !.text = @ \o t]
    ELSE r

\* the body text is also written to the page as it arrives
PageReader_HandleText_WritesText(r, t) ==
    IF r.inTitle THEN [r EXCEPT !.Title = t]
    ELSE IF r.inBody /\ ~r.inScript
    THEN [r EXCEPT !.text = @ \o t, !.Text = r.text \o t]
    ELSE r

PageReader_HandleText(r, t) ==
    IF r.inTitle THEN [r EXCEPT !.Title = t]
    ELSE IF r.inBody /\ ~r.inScript THEN [r EXCEPT !.text = @ \o t]
    ELSE r

PageReader_Done(r) ==
    LET t1 == ReplaceRuns(r.text, LineFeedChars, "\n")
        t2 == ReplaceRuns(t1, WhitespaceChars, " ")
    IN  [r EXCEPT !.text = t2, !.Text = TrimSpace(t2)]

SetPageReader(r) ==
    /\ inTitle' = r.inTitle
    /\ inBody' = r.inBody
    /\ inScript' = r.inScript
    /\ text' = r.text
    /\ pageTitle' = r.Title
    /\ pageText' = r.Text

----------------------------------------------------------------------------
(* PageReader driven by an arbitrary sequence of handler calls *)

PageStart(tn) ==
    /\ ~done /\ Len(hist) < MaxHist
    /\ SetPageReader(PageReader_HandleStart(PageReaderState, tn, AttrsOf({})))
    /\ hist' = Append(hist, [kind |-> "start", tn |-> tn, text |-> EmptyStr])
    /\ UNCHANGED done

PageEnd(tn) ==
    /\ ~done /\ Len(hist) < MaxHist
    /\ SetPageReader(PageReader_HandleEnd(PageReaderState, tn))
    /\ hist' = Append(hist, [kind |-> "end", tn |-> tn, text |-> EmptyStr])
    /\ UNCHANGED done

PageTextEvent(t) ==
    /\ ~done /\ Len(hist) < MaxHist
    /\ SetPageReader(PageReader_HandleText(PageReaderState, t))
    /\ hist' = Append(hist, [kind |-> "text", tn |-> "", text |-> t])
    /\ UNCHANGED done

PageHandleStart ==
    /\ \E tn \in PageTags : PageStart(tn)
    /\ UNCHANGED <<metaVars, metaGhost, schemaVars, schemaGhost, readVars, normVars, lastCall>>
PageHandleEnd ==
    /\ \E tn \in PageTags : PageEnd(tn)
    /\ UNCHANGED <<metaVars, metaGhost, schemaVars, schemaGhost, readVars, normVars, lastCall>>
PageHandleText ==
    /\ \E t \in PageTexts : PageTextEvent(t)
    /\ UNCHANGED <<metaVars, metaGhost, schemaVars, schemaGhost, readVars, normVars, lastCall>>
\* end of the token stream: readers.Done(), then Read returns
PageDone ==
    /\ ~done
    /\ SetPageReader(PageReader_Done(PageReaderState))
    /\ done' = TRUE
    /\ UNCHANGED <<hist, metaVars, metaGhost, schemaVars, schemaGhost, readVars, normVars,
                   lastCall>>

PageNext == PageHandleStart \/ PageHandleEnd \/ PageHandleText \/ PageDone

----------------------------------------------------------------------------
(* Page.Read (page.go) and ReaderList (tokenreader.go) *)

ReadTags == {"head", "meta", "div"}
ReadAttrs(tn) ==
    IF tn = "meta"
    THEN {AttrsOf({<<"property", <<"a">> >>}),
          AttrsOf({<<"property", <<"a", ":", "b">> >>})}
    ELSE IF tn = "div"
    THEN {AttrsOf({}),
          AttrsOf({<<"itemscope", EmptyStr>>}),
          AttrsOf({<<"itemprop", <<"p">> >>})}
    ELSE {AttrsOf({})}

\* Page.Readers: PageReader, MetaReader, SchemaReader
Readers == <<"PageReader", "MetaReader", "SchemaReader">>

NoCall == [method |-> "", i |-> 0, tn |-> "", attrs |-> AttrsOf({}),
           text |-> EmptyStr, selfClosing |-> FALSE]

Running == pc \in {"loop", "dispatch"} /\ metaFatal = "" /\ schemaFatal = ""

\* what a token action leaves alone besides the variables of Read
readerFrame == <<metaVars, metaGhost, schemaVars, schemaGhost, pageVars, hist,
                 normVars, done, lastCall>>

TokenLimit == IF logOn THEN MaxLogTokens ELSE MaxTokens

Results ==
    [Title |-> pageTitle, text |-> text, metaItems |-> metaItems,
     metas |-> metas, items |-> items, scopes |-> scopes, props |-> props]

\* history: the token just read
Token(kind, tn) ==
    tokens' = IF logOn THEN Append(tokens, [kind |-> kind, tn |-> tn])
              ELSE tokens

\* history: the handler call just made
Logged(reader) ==
    log' = IF logOn
           THEN Append(log, [reader |-> reader, method |-> call.method,
                             tn |-> call.tn])
           ELSE log

\* tt := z.Next() and the switch on tt
ReadErrorToken ==
    /\ Running /\ pc = "loop"
    /\ \E e \in {"EOF", "unexpected EOF"} : zErr' = e
    /\ call' = [NoCall EXCEPT !.method = "Done", !.i = 1]
    /\ pc' = "dispatch"
    /\ atError' = Results
    /\ Token("Error", "")
    /\ UNCHANGED <<nTokens, err, scrapeErr, logOn, log, readerFrame>>

ReadTextToken ==
    /\ Running /\ pc = "loop" /\ nTokens < TokenLimit
    /\ \E txt \in Texts :
          call' = [NoCall EXCEPT !.method = "HandleText", !.i = 1, !.text = txt]
    /\ pc' = "dispatch"
    /\ nTokens' = nTokens + 1
    /\ Token("Text", "")
    /\ UNCHANGED <<err, zErr, scrapeErr, atError, logOn, log, readerFrame>>

ReadStartTagToken ==
    /\ Running /\ pc = "loop" /\ nTokens < TokenLimit
    /\ \E tn \in ReadTags : \E attrs \in ReadAttrs(tn) :
          /\ call' = [NoCall EXCEPT !.method = "HandleStart", !.i = 1,
                                    !.tn = tn, !.attrs = attrs]
          /\ Token("StartTag", tn)
    /\ pc' = "dispatch"
    /\ nTokens' = nTokens + 1
    /\ UNCHANGED <<err, zErr, scrapeErr, atError, logOn, log, readerFrame>>

ReadEndTagToken ==
    /\ Running /\ pc = "loop" /\ nTokens < TokenLimit
    /\ \E tn \in ReadTags :
          /\ call' = [NoCall EXCEPT !.method = "HandleEnd", !.i = 1, !.tn = tn]
          /\ Token("EndTag", tn)
    /\ pc' = "dispatch"
    /\ nTokens' = nTokens + 1
    /\ UNCHANGED <<err, zErr, scrapeErr, atError, logOn, log, readerFrame>>

ReadSelfClosingTagToken ==
    /\ Running /\ pc = "loop" /\ nTokens < TokenLimit
    /\ \E tn \in ReadTags : \E attrs \in ReadAttrs(tn) :
          /\ call' = [NoCall EXCEPT !.method = "HandleStart", !.i = 1,
                                    !.tn = tn, !.attrs = attrs,
                                    !.selfClosing = TRUE]
          /\ Token("SelfClosingTag", tn)
    /\ pc' = "dispatch"
    /\ nTokens' = nTokens + 1
    /\ UNCHANGED <<err, zErr, scrapeErr, atError, logOn, log, readerFrame>>

\* a comment or doctype token: no case of the switch, the loop goes on
ReadOtherToken ==
    /\ Running /\ pc = "loop" /\ nTokens < TokenLimit
    /\ nTokens' = nTokens + 1
    /\ Token("Other", "")
    /\ UNCHANGED <<pc, call, err, zErr, scrapeErr, atError, logOn, log,
                   readerFrame>>

\* the ReaderList method moves on to the next reader, or returns to Read:
\* after HandleStart of a self closing tag Read calls HandleEnd, after Done
\* it returns z.Err(), otherwise it loops
AfterCall ==
    IF call.i < Len(Readers)
    THEN /\ call' = [call EXCEPT !.i = @ + 1]
         /\ UNCHANGED <<pc, done, err>>
    ELSE IF call.method = "HandleStart" /\ call.selfClosing
    THEN /\ call' = [call EXCEPT !.method = "HandleEnd", !.i = 1,
                                 !.attrs = AttrsOf({}), !.selfClosing = FALSE]
         /\ UNCHANGED <<pc, done, err>>
    ELSE IF call.method = "Done"
    THEN /\ call' = NoCall
         /\ pc' = "returned"
         /\ err' = zErr
         /\ done' = TRUE
    ELSE /\ call' = NoCall
         /\ pc' = "loop"
         /\ UNCHANGED <<done, err>>

CallPageReader ==
    /\ Running /\ pc = "dispatch" /\ Readers[call.i] = "PageReader"
    /\ SetPageReader(
          IF call.method = "HandleStart"
          THEN PageReader_HandleStart(PageReaderState, call.tn, call.attrs)
          ELSE IF call.method = "HandleEnd"
          THEN PageReader_HandleEnd(PageReaderState, call.tn)
          ELSE IF call.method = "HandleText"
          THEN PageReader_HandleText(PageReaderState, call.text)
          ELSE PageReader_Done(PageReaderState))
    /\ AfterCall
    /\ Logged("PageReader")
    /\ UNCHANGED <<normVars, nTokens, zErr, scrapeErr, atError, logOn, tokens,
                   hist, metaVars, metaGhost, schemaVars, schemaGhost, lastCall>>

CallMetaReader ==
    /\ Running /\ pc = "dispatch" /\ Readers[call.i] = "MetaReader"
    /\ IF call.method = "HandleStart" THEN MetaStart(call.tn, call.attrs)
       ELSE IF call.method = "HandleEnd" THEN MetaEnd(call.tn)
       ELSE IF call.method = "HandleText" THEN MetaText(call.text)
       ELSE /\ SetMetaReader(MetaReader_Done(MetaReaderState))
            /\ UNCHANGED <<metaGhost, lastCall>>
    /\ AfterCall
    /\ Logged("MetaReader")
    /\ UNCHANGED <<normVars, nTokens, zErr, scrapeErr, atError, logOn, tokens,
                   hist, pageVars, schemaVars, schemaGhost>>

CallSchemaReader ==
    /\ Running /\ pc = "dispatch" /\ Readers[call.i] = "SchemaReader"
    /\ IF call.method = "HandleStart"
       THEN /\ SetSchemaReader(
                  SchemaReader_HandleStart(SchemaReaderState, call.tn, call.attrs))
            /\ SchemaStartHistory(call.tn, call.attrs)
       ELSE IF call.method = "HandleEnd"
       THEN /\ SetSchemaReader(SchemaReader_HandleEnd(SchemaReaderState, call.tn))
            /\ SchemaEndHistory(call.tn)
       ELSE IF call.method = "HandleText"
       THEN /\ SetSchemaReader(SchemaReader_HandleText(SchemaReaderState, call.text))
            /\ SchemaTextHistory(call.text)
       ELSE /\ SetSchemaReader(SchemaReader_Done(SchemaReaderState))
            /\ UNCHANGED schemaGhost
    /\ AfterCall
    /\ Logged("SchemaReader")
    /\ UNCHANGED <<normVars, nTokens, zErr, scrapeErr, atError, logOn, tokens,
                   hist, pageVars, metaVars, metaGhost, lastCall>>

----------------------------------------------------------------------------
(* Scrape, scrape.go *)

\* the error Scrape returns after Read: nil ("") when Read returned io.EOF,
\* Read's error otherwise
ScrapeResult_AsRead(readErr) == readErr

ScrapeResult(readErr) == IF readErr # "EOF" THEN readErr ELSE ""

\* http.Get or ioutil.ReadAll failed: Scrape returns before calling Read
ScrapeFetchFails ==
    /\ pc = "loop" /\ nTokens = 0 /\ zErr = ""
    /\ pc' = "scraped"
    /\ scrapeErr' = "fetch failed"
    /\ UNCHANGED <<call, nTokens, err, zErr, atError, logOn, tokens, log,
                   readerFrame>>

\* Read has returned to Scrape
ScrapeReturn ==
    /\ pc = "returned"
    /\ pc' = "scraped"
    /\ scrapeErr' = ScrapeResult(err)
    /\ UNCHANGED <<call, nTokens, err, zErr, atError, logOn, tokens, log,
                   readerFrame>>

Next ==
    \/ ReadErrorToken
    \/ ReadTextToken
    \/ ReadStartTagToken
    \/ ReadEndTagToken
    \/ ReadSelfClosingTagToken
    \/ ReadOtherToken
    \/ CallPageReader
    \/ CallMetaReader
    \/ CallSchemaReader
    \/ ScrapeFetchFails
    \/ ScrapeReturn

----------------------------------------------------------------------------
(* The text normalization of PageReader.Done applied to a string and then to
   its own output *)

NormChars == {"x", " ", "\n", "\r", "VT"}
NormInputs == UNION {[1..n -> NormChars] : n \in 0..MaxLen}

\* Page.Text after Done, for a PageReader that has accumulated s
Normalize(s) == PageReader_Done([PageReaderState EXCEPT !.text = s]).Text

NormApply ==
    /\ Len(normOut) < 2
    /\ normOut' = Append(normOut,
                         Normalize(IF normOut = <<>> THEN normIn
                                   ELSE normOut[Len(normOut)]))
    /\ UNCHANGED <<normIn, metaVars, metaGhost, schemaVars, schemaGhost,
                   pageVars, hist, readVars, done, lastCall>>

NormNext == NormApply

----------------------------------------------------------------------------
(* The state after construction: &MetaReader{}, &SchemaReader{},
   &PageReader{page: p} *)

InitCommon ==
    /\ metas = <<>>
    /\ metaItems = <<>>
    /\ metaInside = FALSE
    /\ metaInHead = FALSE
    /\ metaFatal = ""
    /\ metaOpen = 0
    /\ metaAttrContent = <<>>
    /\ scopes = <<>>
    /\ props = <<>>
    /\ items = <<>>
    /\ stack = <<>>
    /\ breadcrumbs = <<>>
    /\ insideProp = FALSE
    /\ inHead = FALSE
    /\ schemaFatal = ""
    /\ open = <<>>
    /\ wellNested = TRUE
    /\ scopeParent = <<>>
    /\ propAttrContent = <<>>
    /\ propFresh = 0
    /\ propText = EmptyStr
    /\ inTitle = FALSE
    /\ inBody = FALSE
    /\ inScript = FALSE
    /\ text = <<>>
    /\ pageTitle = EmptyStr
    /\ pageText = EmptyStr
    /\ hist = <<>>
    /\ pc = "loop"
    /\ call = NoCall
    /\ nTokens = 0
    /\ err = ""
    /\ zErr = ""
    /\ scrapeErr = ""
    /\ atError = Results
    /\ tokens = <<>>
    /\ log = <<>>
    /\ normOut = <<>>
    /\ done = FALSE
    /\ lastCall = ""

Init == InitCommon /\ normIn = <<>> /\ logOn = FALSE

SpecMeta == Init /\ [][MetaNext]_vars
SpecSchema == Init /\ [][SchemaNext]_vars
SpecPage == Init /\ [][PageNext]_vars
Spec == Init /\ [][Next]_vars

\* as Init, with any bounded string as the input of the normalization
InitNorm == InitCommon /\ normIn \in NormInputs /\ logOn = FALSE

\* as Init, with the tokens and the handler calls recorded
InitLog == InitCommon /\ normIn = <<>> /\ logOn = TRUE

SpecNorm == InitNorm /\ [][NormNext]_vars
SpecLog == InitLog /\ [][Next]_vars

----------------------------------------------------------------------------
(* Properties of MetaReader *)

MetaIds == 1..Len(metas)

LastTopLevel == metaItems[Len(metaItems)]

\* s begins with prefix, stated position by position
BeginsWith(s, prefix) ==
    /\ Len(s) >= Len(prefix)
    /\ \A i \in 1..Len(prefix) : s[i] = prefix[i]

\* C3 (as claimed): a text event that arrives while the meta element opened
\* in the head is still open and its Meta has empty content gives that same
\* Meta the text as content, folded or not, and changes no other content.
C3_TextReachesOpenMeta ==
    [][\A txt \in Texts :
          (MetaText(txt) /\ metaInHead /\ metaOpen # 0
              /\ metas[metaOpen].Content = EmptyStr)
          => /\ metas'[metaOpen].Content = txt
             /\ \A m \in MetaIds \ {metaOpen} :
                    metas'[m].Content = metas[m].Content]_vars

\* C4: an in-head meta start tag folds the new Meta into the extra list of
\* the last top-level Meta exactly when one exists and the new property
\* begins with its property followed by ":"; otherwise the new Meta becomes
\* the last top-level Meta. The extra lists of all other Metas are untouched.
C4_FoldIntoLastTopLevel ==
    [][\A attrs \in MetaAttrs :
          (MetaStart("meta", attrs) /\ metaInHead)
          => LET new == Len(metas) + 1
                 folds == /\ metaItems # <<>>
                          /\ BeginsWith(Get(attrs, "property"),
                                        metas[LastTopLevel].Property \o <<":">>)
             IN  IF folds
                 THEN /\ metaItems' = metaItems
                      /\ metas'[LastTopLevel].Extra =
                             Append(metas[LastTopLevel].Extra, new)
                      /\ \A m \in MetaIds \ {LastTopLevel} :
                             metas'[m].Extra = metas[m].Extra
                      /\ metas'[new].Extra = <<>>
                 ELSE /\ metaItems' = Append(metaItems, new)
                      /\ \A m \in MetaIds : metas'[m].Extra = metas[m].Extra
                      /\ metas'[new].Extra = <<>>]_vars

\* a chain of prefixed tags: "a:b" then "a:b:c" both sit under one top-level Meta
C4_Witness ==
    /\ lastCall = "start"
    /\ \E m \in MetaIds :
          /\ Len(metas[m].Extra) = 2
          /\ metas[metas[m].Extra[1]].Property = <<"a", ":", "b">>
          /\ metas[metas[m].Extra[2]].Property = <<"a", ":", "b", ":", "c">>
          /\ \E i \in DOMAIN metaItems : metaItems[i] = m

\* C5: every Meta that sits in some Meta's extra list has an empty extra list.
C5_OneLevelNesting ==
    \A m \in MetaIds :
        \A i \in DOMAIN metas[m].Extra :
            metas[metas[m].Extra[i]].Extra = <<>>

\* an extra whose property extends the property of an earlier extra of the
\* same Meta: the case where deeper nesting could have been built
C5_Witness ==
    \E m \in MetaIds :
        \E i, j \in DOMAIN metas[m].Extra :
            /\ i < j
            /\ HasPrefix(metas[metas[m].Extra[j]].Property,
                         metas[metas[m].Extra[i]].Property \o <<":">>)

\* C7: a Meta created with a non-empty content attribute keeps that content,
\* whatever events follow.
C7_AttrContentKept ==
    \A m \in MetaIds :
        metaAttrContent[m] # EmptyStr => metas[m].Content = metaAttrContent[m]

\* a text event was just handled inside an open in-head meta element whose
\* Meta, the one HandleText looks at, has a content attribute
C7_Witness ==
    /\ lastCall = "text"
    /\ metaInside /\ metaInHead
    /\ metaItems # <<>>
    /\ metaAttrContent[LastTopLevel] # EmptyStr
    /\ metaOpen = LastTopLevel

----------------------------------------------------------------------------
(* Properties of SchemaReader *)

ScopeIds == 1..Len(scopes)
PropIds == 1..Len(props)

\* C1 (as claimed): whenever insideProp is set the scope stack is non-empty
\* and its top scope has at least one ItemProp, so HandleText never reaches
\* its "No prop to set content from text node" abort.
C1_InsidePropHasProp ==
    /\ insideProp =>
          /\ stack # <<>>
          /\ scopes[stack[Len(stack)]].Props # <<>>
    /\ schemaFatal # NoProp

\* C2 (as claimed): at end-of-stream the scope stack and the marker stack
\* are both empty, for every sequence of events.
C2_BalancedAtEnd ==
    done => (stack = <<>> /\ breadcrumbs = <<>>)

\* C2 (amended): at the end of a well-nested stream, one where every end tag
\* closed the innermost open element and no element is left open, the scope
\* stack and the marker stack are both empty.
C2_BalancedAtEndOfWellNested ==
    (done /\ wellNested /\ open = <<>>) => (stack = <<>> /\ breadcrumbs = <<>>)

\* a well-nested stream that opened and closed a nested scope has ended
C2_Witness ==
    /\ done /\ wellNested /\ open = <<>>
    /\ \E s \in ScopeIds : scopeParent[s] # 0

\* C6 (as claimed): a text event delivered while the element of an ItemProp
\* created with a content attribute is still open sets that ItemProp's
\* content to the text.
C6_TextSetsOpenProp ==
    [][\A txt \in Texts :
          SchemaText(txt)
          => \A i \in DOMAIN open :
                 (open[i].prop # 0 /\ propAttrContent[open[i].prop] # EmptyStr)
                 => props'[open[i].prop].Content = txt]_vars

\* C6 (amended): a text event delivered after the start tag of an ItemProp
\* created with a content attribute, with no start or end tag event in
\* between, sets that ItemProp's content to the text.
C6_TextSetsFreshProp ==
    (propFresh # 0 /\ propAttrContent[propFresh] # EmptyStr
        /\ propText # EmptyStr)
    => props[propFresh].Content = propText

\* a text has been delivered right after the start tag of an ItemProp that
\* has a content attribute
C6_Witness ==
    /\ propFresh # 0
    /\ propAttrContent[propFresh] = <<"c">>
    /\ propText = <<"t">>

\* the places an ItemScope is referenced from: <<0, i>> is position i of the
\* root sequence, <<t, i>> is position i of the children of scope t
ScopeRefs(s) ==
    {<<0, i>> : i \in {j \in DOMAIN items : items[j] = s}}
    \cup UNION {{<<t, i>> : i \in {j \in DOMAIN scopes[t].Children :
                                       scopes[t].Children[j] = s}} :
                t \in ScopeIds}

\* C8: every ItemScope is referenced from exactly one place, the children of
\* the scope that was on top of the stack when it was created, or the root
\* sequence when the stack was empty.
C8_SingleOwner ==
    \A s \in ScopeIds :
        /\ Cardinality(ScopeRefs(s)) = 1
        /\ \A ref \in ScopeRefs(s) : ref[1] = scopeParent[s]

\* a root scope and a nested scope, both already closed
C8_Witness ==
    /\ stack = <<>>
    /\ \E s, t \in ScopeIds : scopeParent[s] = 0 /\ scopeParent[t] = s

----------------------------------------------------------------------------
(* Properties of PageReader *)

\* call i of the history lies inside an open element tn: the nearest earlier
\* start or end call for tn is a start call
InsideAt(i, tn) ==
    \E j \in 1..(i - 1) :
        /\ hist[j].kind = "start" /\ hist[j].tn = tn
        /\ \A k \in (j + 1)..(i - 1) :
               ~(hist[k].kind = "end" /\ hist[k].tn = tn)

TitleCalls == {i \in DOMAIN hist : hist[i].kind = "text" /\ InsideAt(i, "title")}
BodyCalls ==
    {i \in DOMAIN hist : /\ hist[i].kind = "text"
                         /\ InsideAt(i, "body")
                         /\ ~InsideAt(i, "script")
                         /\ ~InsideAt(i, "title")}

RECURSIVE ConcatTexts(_)
ConcatTexts(n) ==
    IF n = 0 THEN <<>>
    ELSE ConcatTexts(n - 1) \o (IF n \in BodyCalls THEN hist[n].text ELSE <<>>)

\* C10: the title is the last text received while in-title was set (empty
\* if none) and, until Done normalises it, the accumulated body text is the
\* in-order concatenation of exactly the texts received while in-body was
\* set and in-script and in-title were not.
C10_TitleAndBodyText ==
    /\ pageTitle = IF TitleCalls = {} THEN EmptyStr
                   ELSE hist[CHOOSE i \in TitleCalls :
                                 \A j \in TitleCalls : j <= i].text
    /\ ~done => text = ConcatTexts(Len(hist))

\* a body text was accumulated and a later text inside a script was left out
C10_Witness ==
    /\ ~done
    /\ text # <<>>
    /\ \E i, j \in DOMAIN hist :
          /\ i < j
          /\ i \in BodyCalls
          /\ hist[j].kind = "text"
          /\ InsideAt(j, "body") /\ InsideAt(j, "script")

----------------------------------------------------------------------------
(* Properties of the results of a Read *)

\* heap indices are handed out in the order of the start tags that create
\* the structs, so a sequence is in document order when it is ascending
Ascending(seq) == \A i, j \in DOMAIN seq : i < j => seq[i] < seq[j]

IsPrefix(a, b) == Len(a) <= Len(b) /\ SubSeq(b, 1, Len(a)) = a

\* C9: the top-level metadata sequence, each Meta's extra list, the root
\* ItemScope sequence and each scope's children and props list their entries
\* in the order of their start tags, and a step only ever appends to them.
C9_DocumentOrder ==
    /\ [](/\ Ascending(metaItems)
          /\ \A m \in MetaIds : Ascending(metas[m].Extra)
          /\ Ascending(items)
          /\ \A s \in ScopeIds : /\ Ascending(scopes[s].Children)
                                 /\ Ascending(scopes[s].Props))
    /\ [][/\ IsPrefix(metaItems, metaItems')
          /\ \A m \in MetaIds : IsPrefix(metas[m].Extra, metas'[m].Extra)
          /\ IsPrefix(items, items')
          /\ \A s \in ScopeIds :
                /\ IsPrefix(scopes[s].Children, scopes'[s].Children)
                /\ IsPrefix(scopes[s].Props, scopes'[s].Props)]_vars

\* Read has returned with two entries in the top-level metadata sequence
\* and two in the root ItemScope sequence
C9_Witness ==
    /\ pc = "returned"
    /\ Len(metaItems) >= 2
    /\ Len(items) >= 2

----------------------------------------------------------------------------
(* Properties of the text normalization *)

\* C11: the normalization applied to its own output returns that output.
C11_NormalizeIdempotent ==
    Len(normOut) = 2 => normOut[2] = normOut[1]

\* the normalization has run twice on an input whose whitespace runs it had
\* to collapse and whose ends it had to trim
C11_Witness ==
    /\ Len(normOut) = 2
    /\ normOut[1] # normIn
    /\ Len(normOut[1]) >= 3
    /\ \E i \in DOMAIN normOut[1] : normOut[1][i] = " "

----------------------------------------------------------------------------
(* Claims about Page.Read and Scrape *)

Calls(method, tn) ==
    [i \in 1..Len(Readers) |->
        [reader |-> Readers[i], method |-> method, tn |-> tn]]

\* the handler calls the claimed dispatch makes for one token
CallsOfToken(tok) ==
    CASE tok.kind = "StartTag" -> Calls("HandleStart", tok.tn)
      [] tok.kind = "EndTag" -> Calls("HandleEnd", tok.tn)
      [] tok.kind = "SelfClosingTag" ->
            Calls("HandleStart", tok.tn) \o Calls("HandleEnd", tok.tn)
      [] tok.kind = "Text" -> Calls("HandleText", "")
      [] tok.kind = "Error" -> Calls("Done", "")
      [] OTHER -> <<>>

RECURSIVE ExpectedCalls(_)
ExpectedCalls(toks) ==
    IF toks = <<>> THEN <<>>
    ELSE ExpectedCalls(SubSeq(toks, 1, Len(toks) - 1))
            \o CallsOfToken(toks[Len(toks)])

CountCalls(reader, method, tn, n) ==
    Cardinality({i \in 1..n : log[i] = [reader |-> reader, method |-> method,
                                        tn |-> tn]})

\* C13: every HandleEnd(tag) a reader receives is preceded by a HandleStart
\* of the same tag, to the same reader, that no earlier HandleEnd has matched.
C13_EndAfterStart ==
    \A n \in DOMAIN log :
        log[n].method = "HandleEnd" =>
            CountCalls(log[n].reader, "HandleEnd", log[n].tn, n)
                <= CountCalls(log[n].reader, "HandleStart", log[n].tn, n)

\* the run of Read is over: it returned, or a reader ended the process
ReadEnded ==
    pc \in {"returned", "scraped"} \/ metaFatal # "" \/ schemaFatal # ""

\* C14: the handler calls are those of the tokens read, token by token and in
\* reader order, each token's calls complete before the next token is read,
\* and the run ends with the stream's end: Done on each reader, once, and
\* then the return of Read.
C14_CallSequence ==
    /\ IsPrefix(log, ExpectedCalls(tokens))
    /\ pc = "loop" => log = ExpectedCalls(tokens)
    /\ (ReadEnded /\ tokens # <<>>) =>
          /\ log = ExpectedCalls(tokens)
          /\ tokens[Len(tokens)].kind = "Error"
          /\ \A i \in 1..(Len(tokens) - 1) : tokens[i].kind # "Error"

\* the same, for the runs in which no reader ends the process
C14_CallSequenceOfCompletedRead ==
    (metaFatal = "" /\ schemaFatal = "") => C14_CallSequence

----------------------------------------------------------------------------
(* Claims about the marker stack and the scope stack of SchemaReader *)

OpenOutsideHead == {i \in DOMAIN open : open[i].outside}

\* C15: on a well-nested stream the marker stack holds one marker for each
\* open element that was opened outside the head, whether its start tag had
\* attributes or not.
C15_MarkerPerOpenElement ==
    wellNested => Len(breadcrumbs) = Cardinality(OpenOutsideHead)

RECURSIVE OpenScopes(_)
OpenScopes(o) ==
    IF o = <<>> THEN <<>>
    ELSE LET rest == OpenScopes(SubSeq(o, 1, Len(o) - 1))
             e == o[Len(o)]
         IN  IF e.scope # 0 THEN Append(rest, e.scope) ELSE rest

\* C16: on a well-nested stream the scope stack holds exactly the ItemScopes
\* whose creating elements are still open, outermost first: a scope leaves
\* the stack at the end tag of the element that created it and at no other.
C16_ScopeOpenWhileElementOpen ==
    wellNested => stack = OpenScopes(open)

----------------------------------------------------------------------------
(* Claims about what the readers leave alone *)

\* C17: while SchemaReader's inHead is set, no event changes the microdata
\* results, the scope stack, the marker stack or insideProp.
C17_HeadIgnored ==
    [][inHead => UNCHANGED <<scopes, props, items, stack, breadcrumbs,
                             insideProp>>]_vars

\* C18: a meta start tag or a meta end tag received while MetaReader is not
\* inside the head leaves the result sequence, every Meta, inside and inHead
\* unchanged.
C18_MetaOutsideHeadIgnored ==
    [][(/\ ~metaInHead
        /\ \/ \E attrs \in MetaAttrs : MetaStart("meta", attrs)
           \/ MetaEnd("meta"))
       => UNCHANGED <<metas, metaItems, metaInside, metaInHead>>]_vars

----------------------------------------------------------------------------
(* Claims about the aborts of MetaReader *)

\* C20: the fold is attempted only when a top-level Meta existed before the
\* new one was appended: MetaReader never aborts, and once a Meta has been
\* folded the top-level sequence is not empty.
C20_FoldHasPrior ==
    /\ metaFatal = ""
    /\ (\E m \in MetaIds : metas[m].Extra # <<>>) => metaItems # <<>>

C20_Witness ==
    /\ metaItems # <<>>
    /\ metas[metaItems[1]].Property = <<":", "a">>
    /\ \E m \in MetaIds : metas[m].Extra # <<>>

----------------------------------------------------------------------------
(* Claims about the aborts of SchemaReader *)

TrueMarkers == {i \in DOMAIN breadcrumbs : breadcrumbs[i]}

\* C21: in every reachable state the marker stack has as many true entries
\* as the scope stack has scopes, and HandleEnd never pops an empty scope
\* stack.
C21_TrueMarkersMatchScopes ==
    /\ Cardinality(TrueMarkers) = Len(stack)
    /\ schemaFatal # OutOfRange

\* a scope has been popped by an end tag, another is still on the stack under
\* a false marker
C21_Witness ==
    /\ Len(scopes) > Len(stack)
    /\ stack # <<>>
    /\ \E i \in DOMAIN breadcrumbs : ~breadcrumbs[i]
    /\ TrueMarkers # {}

============================================================================
